---- MODULE Spec2Model ----
(***************************************************************************)
(* Model of ingest_to_sqlite.py: a reset-and-reload of five CSV files into *)
(* one SQLite database through Python's csv and sqlite3 modules.           *)
(*                                                                         *)
(* A text field is a sequence of one-character strings.  A Python value    *)
(* that may be None is a record [none, s].  A converted value (an element  *)
(* of the tuple handed to SQLite) is a record [kind, s, n, scale].         *)
(***************************************************************************)
EXTENDS Integers, Sequences, FiniteSets, TLC

\* ------------------------------------------------------------------ bounds
\* longest source file (data records) the loader is run on
MaxRecs == 2
\* number of consecutive runs of main() against the same store
MaxRuns == 2
\* number of rows per table of a store that is not empty before the first run
MaxPre == 1
\* longest raw field handed to convert_row in the conversion specification
MaxLen == 2

\* ------------------------------------------------------ schema registry
LOAD_SEQUENCE == <<"customers", "products", "orders", "order_items", "reviews">>

TABLE_CONFIGS ==
  [customers |->
     [file |-> "customers.csv",
      columns |-> <<"customer_id", "name", "email", "city", "state",
                    "signup_date", "loyalty_tier">>,
      float_fields |-> {}, int_fields |-> {}],
   products |->
     [file |-> "products.csv",
      columns |-> <<"product_id", "product_name", "category", "price", "cost",
                    "currency", "stock_status">>,
      float_fields |-> {"price", "cost"}, int_fields |-> {}],
   orders |->
     [file |-> "orders.csv",
      columns |-> <<"order_id", "customer_id", "order_date", "order_status",
                    "payment_method", "order_total", "ship_city", "ship_state">>,
      float_fields |-> {"order_total"}, int_fields |-> {}],
   order_items |->
     [file |-> "order_items.csv",
      columns |-> <<"order_id", "product_id", "quantity", "item_price",
                    "item_discount">>,
      float_fields |-> {"item_price", "item_discount"},
      int_fields |-> {"quantity"}],
   reviews |->
     [file |-> "reviews.csv",
      columns |-> <<"review_id", "order_id", "customer_id", "product_id",
                    "rating", "review_text", "review_date">>,
      float_fields |-> {}, int_fields |-> {"rating"}]]

\* The constraints declared by the CREATE TABLE statements.
SCHEMAS ==
  [customers |->
     [pk |-> <<"customer_id">>, notnull |-> {"name", "email"}, fks |-> {}],
   products |->
     [pk |-> <<"product_id">>, notnull |-> {"product_name"}, fks |-> {}],
   orders |->
     [pk |-> <<"order_id">>, notnull |-> {"customer_id"},
      fks |-> {[col |-> "customer_id", table |-> "customers", ref |-> "customer_id"]}],
   order_items |->
     [pk |-> <<"order_id", "product_id">>, notnull |-> {"order_id", "product_id"},
      fks |-> {[col |-> "order_id", table |-> "orders", ref |-> "order_id"],
               [col |-> "product_id", table |-> "products", ref |-> "product_id"]}],
   reviews |->
     [pk |-> <<"review_id">>, notnull |-> {"order_id", "customer_id", "product_id"},
      fks |-> {[col |-> "order_id", table |-> "orders", ref |-> "order_id"],
               [col |-> "customer_id", table |-> "customers", ref |-> "customer_id"],
               [col |-> "product_id", table |-> "products", ref |-> "product_id"]}]]

\* SCHEMAS.values(): the dict keeps its literal order.
SchemaOrder == <<"customers", "products", "orders", "order_items", "reviews">>

Tables == DOMAIN SCHEMAS

Range(s) == {s[i] : i \in 1..Len(s)}

IndexOf(s, x) == CHOOSE i \in 1..Len(s) : s[i] = x

Reverse(s) == [i \in 1..Len(s) |-> s[Len(s) + 1 - i]]

\* ------------------------------------------------------------ values
Null == [kind |-> "null", s |-> <<>>, n |-> 0, scale |-> 0]
TextVal(s) == [kind |-> "text", s |-> s, n |-> 0, scale |-> 0]
IntVal(n) == [kind |-> "int", s |-> <<>>, n |-> n, scale |-> 0]
RealVal(n, scale) == [kind |-> "real", s |-> <<>>, n |-> n, scale |-> scale]

PyNone == [none |-> TRUE, s |-> <<>>]
PyStr(s) == [none |-> FALSE, s |-> s]

NoError == [kind |-> "none", detail |-> "", table |-> "", phase |-> "", row |-> 0]
Raise(kind, detail) == [kind |-> kind, detail |-> detail, table |-> "", phase |-> "", row |-> 0]

\* ------------------------------------------------------- str.strip()
Whitespace == {" ", "\t", "\n", "\r"}

RECURSIVE lstrip(_)
lstrip(s) ==
  IF s # <<>> /\ Head(s) \in Whitespace THEN lstrip(Tail(s)) ELSE s

RECURSIVE rstrip(_)
rstrip(s) ==
  IF s # <<>> /\ s[Len(s)] \in Whitespace
    THEN rstrip(SubSeq(s, 1, Len(s) - 1))
    ELSE s

strip_nostrip(s) == s

strip(s) == rstrip(lstrip(s))

\* ------------------------------------------------ int(value), float(value)
Digits == {"0", "1", "2", "3", "4", "5", "6", "7", "8", "9"}

DigitValue(c) ==
  CASE c = "0" -> 0 [] c = "1" -> 1 [] c = "2" -> 2 [] c = "3" -> 3
    [] c = "4" -> 4 [] c = "5" -> 5 [] c = "6" -> 6 [] c = "7" -> 7
    [] c = "8" -> 8 [] c = "9" -> 9

RECURSIVE DecimalValue(_)
DecimalValue(s) ==
  IF s = <<>> THEN 0
  ELSE 10 * DecimalValue(SubSeq(s, 1, Len(s) - 1)) + DigitValue(s[Len(s)])

AllDigits(s) == \A i \in 1..Len(s) : s[i] \in Digits

\* int(): a non-empty run of decimal digits, surrounding whitespace allowed.
\* (Signs and digit-group underscores are outside the modelled alphabet.)
PyInt(v) ==
  LET s == strip(v) IN
  IF s # <<>> /\ AllDigits(s)
    THEN [ok |-> TRUE, val |-> IntVal(DecimalValue(s))]
    ELSE [ok |-> FALSE, val |-> Null]

RECURSIVE DropTrailingZeros(_)
DropTrailingZeros(s) ==
  IF s # <<>> /\ s[Len(s)] = "0"
    THEN DropTrailingZeros(SubSeq(s, 1, Len(s) - 1))
    ELSE s

\* float(): digits with at most one decimal point and at least one digit.
\* The value is n / 10^scale with the fraction's trailing zeros dropped, so
\* that equal numbers have equal representations.
\* (Signs, exponents, inf and nan are outside the modelled alphabet.)
PyFloat(v) ==
  LET s == strip(v)
      points == {i \in 1..Len(s) : s[i] = "."}
      p == IF points = {} THEN Len(s) + 1 ELSE CHOOSE i \in points : TRUE
      whole == SubSeq(s, 1, p - 1)
      frac == DropTrailingZeros(SubSeq(s, p + 1, Len(s)))
  IN IF /\ Cardinality(points) <= 1
        /\ AllDigits(whole) /\ AllDigits(SubSeq(s, p + 1, Len(s)))
        /\ Len(s) - Cardinality(points) >= 1
       THEN [ok |-> TRUE, val |-> RealVal(DecimalValue(whole \o frac), Len(frac))]
       ELSE [ok |-> FALSE, val |-> Null]

\* ------------------------------------------------------- csv.DictReader
\* One record of the file as the dict DictReader yields: a key per header
\* name; a record shorter than the header gets restval (None) for the names
\* it has no field for; fields beyond the header go under the key None,
\* which no declared column name equals, so they are left out here.
DictRow(header, fields) ==
  [name \in Range(header) |->
     LET i == CHOOSE k \in 1..Len(header) :
                /\ header[k] = name
                /\ \A j \in 1..Len(header) : header[j] = name => j <= k
     IN IF i <= Len(fields) THEN PyStr(fields[i]) ELSE PyNone]

\* row.get(column, "")
DictGet(row, column) ==
  IF column \in DOMAIN row THEN row[column] ELSE PyStr(<<>>)

\* ---------------------------------------------------------- convert_row
RECURSIVE ConvertFrom(_, _, _, _)
ConvertFrom(row, config, i, converted) ==
  IF i > Len(config.columns) THEN [error |-> NoError, tuple |-> converted]
  ELSE
    LET column == config.columns[i]
        cell == DictGet(row, column)
    IN IF cell.none
         THEN [error |-> Raise("AttributeError", "NoneType.strip"), tuple |-> <<>>]
         ELSE
           LET value == strip(cell.s) IN
           IF value = <<>>
             THEN ConvertFrom(row, config, i + 1, Append(converted, Null))
           ELSE IF column \in config.float_fields
             THEN IF PyFloat(value).ok
                    THEN ConvertFrom(row, config, i + 1,
                                     Append(converted, PyFloat(value).val))
                    ELSE [error |-> Raise("ValueError", "float"), tuple |-> <<>>]
           ELSE IF column \in config.int_fields
             THEN IF PyInt(value).ok
                    THEN ConvertFrom(row, config, i + 1,
                                     Append(converted, PyInt(value).val))
                    ELSE [error |-> Raise("ValueError", "int"), tuple |-> <<>>]
           ELSE ConvertFrom(row, config, i + 1, Append(converted, TextVal(value)))

convert_row(row, config) == ConvertFrom(row, config, 1, <<>>)

\* ------------------------------------------------------------ read_rows
MissingFile == [exists |-> FALSE, header |-> <<>>, records |-> <<>>]
CsvFile(header, records) == [exists |-> TRUE, header |-> header, records |-> records]

\* DictReader skips the records that have no field at all (blank lines).
DataRecords(file) == SelectSeq(file.records, LAMBDA r : r # <<>>)

RECURSIVE ReadFrom(_, _, _, _)
ReadFrom(file, config, recs, rows) ==
  IF recs = <<>> THEN [error |-> NoError, rows |-> rows]
  ELSE
    LET c == convert_row(DictRow(file.header, Head(recs)), config) IN
    IF c.error.kind # "none"
      THEN [error |-> c.error, rows |-> <<>>]
      ELSE ReadFrom(file, config, Tail(recs), Append(rows, c.tuple))

read_rows(table_name, file) ==
  IF ~file.exists
    THEN [error |-> Raise("FileNotFoundError", TABLE_CONFIGS[table_name].file),
          rows |-> <<>>]
    ELSE ReadFrom(file, TABLE_CONFIGS[table_name], DataRecords(file), <<>>)

\* ------------------------------------------------ the relational store
\* A table is the sequence of its rows in insertion order; a row carries the
\* tuple bound to the INSERT and the number of the run that inserted it
\* (0 for a row the store held before the first run).
StoredRow(tuple, r) == [vals |-> tuple, run |-> r]

Untag(rows) == [i \in 1..Len(rows) |-> rows[i].vals]

Tag(tuples, r) == [i \in 1..Len(tuples) |-> StoredRow(tuples[i], r)]

EmptyStore == [t \in Tables |-> <<>>]

Col(t, tuple, c) == tuple[IndexOf(TABLE_CONFIGS[t].columns, c)]

\* NOT NULL: a declared column of the new row is NULL.
NotNullFails(t, tuple) ==
  \E c \in SCHEMAS[t].notnull : Col(t, tuple, c) = Null

\* PRIMARY KEY: a stored row has the same key; a key holding a NULL is
\* distinct from every other key (SQLite keeps NULLs in a TEXT PRIMARY KEY).
UniqueFails(w, t, tuple) ==
  LET pk == SCHEMAS[t].pk IN
  /\ \A i \in 1..Len(pk) : Col(t, tuple, pk[i]) # Null
  /\ \E j \in 1..Len(w[t]) :
        \A i \in 1..Len(pk) : Col(t, w[t][j].vals, pk[i]) = Col(t, tuple, pk[i])

\* FOREIGN KEY on the child side: a non-NULL reference without parent row.
Dangling(w, t, tuple) ==
  \E f \in SCHEMAS[t].fks :
     /\ Col(t, tuple, f.col) # Null
     /\ ~\E j \in 1..Len(w[f.table]) :
           Col(f.table, w[f.table][j].vals, f.ref) = Col(t, tuple, f.col)

\* FOREIGN KEY on the parent side: a row of t is still referenced.
Referenced(w, t) ==
  \E ct \in Tables : \E f \in SCHEMAS[ct].fks :
     /\ f.table = t
     /\ \E j \in 1..Len(w[ct]) : \E k \in 1..Len(w[t]) :
           /\ Col(ct, w[ct][j].vals, f.col) # Null
           /\ Col(ct, w[ct][j].vals, f.col) = Col(t, w[t][k].vals, f.ref)

\* conn.execute("PRAGMA foreign_keys = ON;"): a no-op inside a transaction.
PragmaForeignKeys_off(inTx, cur) == cur

PragmaForeignKeys(inTx, cur) == IF inTx THEN cur ELSE TRUE

\* One INSERT statement.
ExecInsert(w, t, tuple, fk, r) ==
  IF NotNullFails(t, tuple)
    THEN [error |-> Raise("IntegrityError", "NOT NULL"), work |-> w]
  ELSE IF UniqueFails(w, t, tuple)
    THEN [error |-> Raise("IntegrityError", "UNIQUE"), work |-> w]
  ELSE IF fk /\ Dangling(w, t, tuple)
    THEN [error |-> Raise("IntegrityError", "FOREIGN KEY"), work |-> w]
  ELSE [error |-> NoError,
        work |-> [w EXCEPT ![t] = Append(@, StoredRow(tuple, r))]]

\* conn.executemany(query, rows): one INSERT per tuple, stopping at the first
\* that fails; the rows before it stay in the open transaction.
RECURSIVE ExecManyFrom(_, _, _, _, _, _)
ExecManyFrom(w, t, rows, i, fk, r) ==
  IF i > Len(rows) THEN [error |-> NoError, work |-> w]
  ELSE
    LET x == ExecInsert(w, t, rows[i], fk, r) IN
    IF x.error.kind # "none"
      THEN [error |-> [x.error EXCEPT !.row = i], work |-> w]
      ELSE ExecManyFrom(x.work, t, rows, i + 1, fk, r)

executemany(w, t, rows, fk, r) == ExecManyFrom(w, t, rows, 1, fk, r)

\* conn.execute(f"DELETE FROM {table}")
ExecDelete(w, sch, t, fk) ==
  IF t \notin sch
    THEN [error |-> Raise("OperationalError", "no such table"), work |-> w]
  ELSE IF fk /\ Referenced(w, t)
    THEN [error |-> Raise("IntegrityError", "FOREIGN KEY"), work |-> w]
  ELSE [error |-> NoError, work |-> [w EXCEPT ![t] = <<>>]]

\* CREATE TABLE IF NOT EXISTS
ExecCreate_strict(sch, t) ==
  IF t \in sch
    THEN [error |-> Raise("OperationalError", "table already exists"), schema |-> sch]
    ELSE [error |-> NoError, schema |-> sch \cup {t}]

ExecCreate(sch, t) == [error |-> NoError, schema |-> sch \cup {t}]

\* create_tables: every statement of SCHEMAS in turn.  DDL opens no implicit
\* transaction, so each statement is durable as soon as it has run.
RECURSIVE CreateFrom(_, _)
CreateFrom(sch, i) ==
  IF i > Len(SchemaOrder) THEN [error |-> NoError, schema |-> sch]
  ELSE
    LET x == ExecCreate(sch, SchemaOrder[i]) IN
    IF x.error.kind # "none" THEN x ELSE CreateFrom(x.schema, i + 1)

create_tables(sch) == CreateFrom(sch, 1)

\* clear_tables iterates reversed(LOAD_SEQUENCE).
ClearSequence_parents_first == LOAD_SEQUENCE

ClearSequence == Reverse(LOAD_SEQUENCE)

\* sqlite3.Connection.__exit__: commit when the block ended normally, roll
\* back when an exception leaves it.  It does not close the connection.
ConnExit_commit_always(exc, committed, w) == [db |-> w, work |-> w]

ConnExit(exc, committed, w) ==
  IF exc THEN [db |-> committed, work |-> committed]
         ELSE [db |-> w, work |-> w]

\* insert_rows: nothing is executed for an empty list; otherwise the rows go
\* through one executemany, which opens the implicit transaction if none is
\* open, and the count returned is len(rows).
insert_rows_short_count(w, inTx, t, rows, fk, r) ==
  IF rows = <<>>
    THEN [error |-> NoError, work |-> w, in_transaction |-> inTx, inserted |-> 0]
    ELSE LET x == executemany(w, t, rows, fk, r) IN
         [error |-> x.error, work |-> x.work, in_transaction |-> TRUE,
          inserted |-> Len(rows) - 1]

insert_rows(w, inTx, t, rows, fk, r) ==
  IF rows = <<>>
    THEN [error |-> NoError, work |-> w, in_transaction |-> inTx, inserted |-> 0]
    ELSE LET x == executemany(w, t, rows, fk, r) IN
         [error |-> x.error, work |-> x.work, in_transaction |-> TRUE,
          inserted |-> Len(rows)]

\* ------------------------------------------------------- source files
KeyColumns == {"customer_id", "product_id", "order_id", "review_id"}

NumericColumns(t) == TABLE_CONFIGS[t].float_fields \cup TABLE_CONFIGS[t].int_fields

\* Record k of a well-formed file: every identifier column holds k, so that
\* record k of a child table refers to record k of each of its parents.
BaseField(t, c, k) ==
  IF c \in KeyColumns THEN <<ToString(k)>>
  ELSE IF c \in TABLE_CONFIGS[t].float_fields THEN <<"7", ".", "5">>
  ELSE IF c \in TABLE_CONFIGS[t].int_fields THEN <<"7">>
  ELSE <<"x">>

BaseRecord(t, k) ==
  [i \in 1..Len(TABLE_CONFIGS[t].columns) |-> BaseField(t, TABLE_CONFIGS[t].columns[i], k)]

\* The last record of a file may carry one defect.
Defective(t, n, d) ==
  LET cols == TABLE_CONFIGS[t].columns
      base == BaseRecord(t, n)
  IN CASE d = "dupkey" ->
            [i \in 1..Len(cols) |->
               IF cols[i] \in Range(SCHEMAS[t].pk) THEN <<ToString(n - 1)>> ELSE base[i]]
       [] d = "blank1" -> [base EXCEPT ![1] = <<" ">>]
       [] d = "blank2" -> [base EXCEPT ![2] = <<>>]
       [] d = "badnum" ->
            [i \in 1..Len(cols) |->
               IF cols[i] \in NumericColumns(t) THEN <<"x">> ELSE base[i]]
       [] d = "short" -> SubSeq(base, 1, 2)
       [] OTHER -> base

DefectsFor(t, n) ==
  IF n = 0 THEN {"none"}
  ELSE {"none", "blank1", "blank2", "short"}
         \cup (IF n >= 2 THEN {"dupkey"} ELSE {})
         \cup (IF NumericColumns(t) # {} THEN {"badnum"} ELSE {})

GenFile(t, n, d) ==
  CsvFile(TABLE_CONFIGS[t].columns,
          [k \in 1..n |-> IF k = n THEN Defective(t, n, d) ELSE BaseRecord(t, k)])

SourceFiles(t) ==
  {MissingFile}
    \cup UNION {{GenFile(t, n, d) : d \in DefectsFor(t, n)} : n \in 0..MaxRecs}

CleanFiles(t) == {GenFile(t, n, "none") : n \in 0..MaxRecs}

\* The data sets the loader is run on have at most one defective file: the
\* files that may follow the files fs already read.
NextFiles(fs, t) ==
  IF \E u \in DOMAIN fs : fs[u] \notin CleanFiles(u)
    THEN CleanFiles(t)
    ELSE SourceFiles(t)

\* A store filled by an earlier load of m well-formed records per table.
Preload(m) ==
  [t \in Tables |-> Tag(read_rows(t, GenFile(t, m, "none")).rows, 0)]

\* ---------------------------------------------------------------- state
VARIABLES
  pc,              \* where main() stands
  run,             \* number of the run of main() in progress (0: none yet)
  conn,            \* the sqlite3 connection: "none", "open" or "closed"
  foreign_keys,    \* the connection's foreign_keys pragma
  in_transaction,  \* the connection has an open transaction
  schema,          \* the tables that exist in the store
  db,              \* the committed content of the store
  work,            \* the content as the connection sees it
  files,           \* the source files, fixed once they have been read
  tbl,             \* loop index of clear_tables, then of the load loop
  rows,            \* the rows read_rows returned for the current table
  loaded,          \* the rows read_rows returned, per table read in this run
  inserted,        \* the value insert_rows returned
  error,           \* the exception in flight
  summary,         \* the summary dict, in insertion order
  output,          \* the lines printed
  prev,            \* how the previous run ended and the store it left
  cv               \* the conversion specification's record under test

vars == <<pc, run, conn, foreign_keys, in_transaction, schema, db, work, files,
          tbl, rows, loaded, inserted, error, summary, output, prev, cv>>

CvIdle == [stage |-> "idle"]

Init ==
  /\ pc = "idle"
  /\ run = 0
  /\ conn = "none"
  /\ foreign_keys = FALSE
  /\ in_transaction = FALSE
  /\ \E m \in {0, MaxPre} :
        /\ schema = (IF m = 0 THEN {} ELSE Tables)
        /\ db = Preload(m)
  /\ work = db
  /\ files = << >>
  /\ tbl = 0
  /\ rows = <<>>
  /\ loaded = << >>
  /\ inserted = 0
  /\ error = NoError
  /\ summary = <<>>
  /\ output = <<>>
  /\ prev = [status |-> "none", db |-> EmptyStore]
  /\ cv = CvIdle

At(e, t, phase) == [e EXCEPT !.table = t, !.phase = phase]

\* main, lines 200-202: touch the store file, connect, switch foreign keys on.
Connect ==
  /\ pc \in {"idle", "done", "aborted"}
  /\ run < MaxRuns
  /\ run' = run + 1
  /\ prev' = [status |-> pc, db |-> db]
  /\ conn' = "open"
  /\ in_transaction' = FALSE
  /\ work' = db
  /\ foreign_keys' = PragmaForeignKeys(FALSE, FALSE)
  /\ tbl' = 0
  /\ rows' = <<>>
  /\ loaded' = << >>
  /\ inserted' = 0
  /\ error' = NoError
  /\ summary' = <<>>
  /\ output' = <<>>
  /\ pc' = "create"
  /\ UNCHANGED <<schema, db, files, cv>>

\* main, line 203.
CreateTables ==
  /\ pc = "create"
  /\ LET x == create_tables(schema) IN
       /\ schema' = x.schema
       /\ error' = At(x.error, "", "create")
       /\ pc' = IF x.error.kind = "none" THEN "clear" ELSE "exit"
  /\ tbl' = 1
  /\ UNCHANGED <<run, conn, foreign_keys, in_transaction, db, work, files,
                 rows, loaded, inserted, summary, output, prev, cv>>

\* clear_tables, one DELETE of its loop.  The first DELETE opens the
\* implicit transaction; nothing in clear_tables commits it.
ClearTable ==
  /\ pc = "clear"
  /\ LET t == ClearSequence[tbl]
         x == ExecDelete(work, schema, t, foreign_keys)
     IN /\ in_transaction' = TRUE
        /\ work' = x.work
        /\ error' = At(x.error, t, "clear")
        /\ IF x.error.kind # "none" THEN pc' = "exit" /\ tbl' = tbl
           ELSE IF tbl < Len(ClearSequence) THEN pc' = "clear" /\ tbl' = tbl + 1
           ELSE pc' = "read" /\ tbl' = 1
  /\ UNCHANGED <<run, conn, foreign_keys, schema, db, files, rows, loaded, inserted,
                 summary, output, prev, cv>>

\* main, line 207: rows = read_rows(table).
ReadRows ==
  /\ pc = "read"
  /\ LET t == LOAD_SEQUENCE[tbl] IN
     \E f \in (IF t \in DOMAIN files THEN {files[t]} ELSE NextFiles(files, t)) :
        LET x == read_rows(t, f) IN
        /\ files' = (t :> f) @@ files
        /\ rows' = x.rows
        /\ loaded' = IF x.error.kind = "none" THEN (t :> x.rows) @@ loaded ELSE loaded
        /\ error' = At(x.error, t, "read")
        /\ pc' = IF x.error.kind = "none" THEN "insert" ELSE "exit"
  /\ UNCHANGED <<run, conn, foreign_keys, in_transaction, schema, db, work,
                 tbl, inserted, summary, output, prev, cv>>

\* main, line 209: inserted = insert_rows(conn, table, rows), inside `with conn`.
InsertRows ==
  /\ pc = "insert"
  /\ LET t == LOAD_SEQUENCE[tbl]
         x == insert_rows(work, in_transaction, t, rows, foreign_keys, run)
     IN /\ work' = x.work
        /\ in_transaction' = x.in_transaction
        /\ inserted' = x.inserted
        /\ error' = At(x.error, t, "insert")
  /\ pc' = "txn_exit"
  /\ UNCHANGED <<run, conn, foreign_keys, schema, db, files, tbl, rows, loaded,
                 summary, output, prev, cv>>

\* main, lines 208 and 210: the end of the `with conn` block, then
\* summary[table] = inserted and the next turn of the loop.
TxnExit ==
  /\ pc = "txn_exit"
  /\ LET x == ConnExit(error.kind # "none", db, work) IN
       /\ db' = x.db
       /\ work' = x.work
  /\ in_transaction' = FALSE
  /\ IF error.kind # "none"
       THEN /\ pc' = "exit"
            /\ UNCHANGED <<summary, tbl>>
       ELSE /\ summary' = Append(summary, [table |-> LOAD_SEQUENCE[tbl], count |-> inserted])
            /\ IF tbl < Len(LOAD_SEQUENCE)
                 THEN pc' = "read" /\ tbl' = tbl + 1
                 ELSE pc' = "exit" /\ tbl' = tbl
  /\ UNCHANGED <<run, conn, foreign_keys, schema, files, rows, loaded, inserted, error,
                 output, prev, cv>>

\* main, line 201: the end of the `with sqlite3.connect(...) as conn` block.
LeaveConnection ==
  /\ pc = "exit"
  /\ LET x == ConnExit(error.kind # "none", db, work) IN
       /\ db' = x.db
       /\ work' = x.work
  /\ in_transaction' = FALSE
  /\ pc' = IF error.kind # "none" THEN "aborted" ELSE "print"
  /\ UNCHANGED <<run, conn, foreign_keys, schema, files, tbl, rows, loaded, inserted,
                 error, summary, output, prev, cv>>

\* main, lines 211-212: one print of the loop over summary.items().
PrintLine_in_loop ==
  /\ pc = "read"
  /\ Len(output) < Len(summary)
  /\ output' = Append(output, summary[Len(output) + 1])
  /\ UNCHANGED <<pc, run, conn, foreign_keys, in_transaction, schema, db, work,
                 files, tbl, rows, loaded, inserted, error, summary, prev, cv>>

PrintLine ==
  /\ pc = "print"
  /\ Len(output) < Len(summary)
  /\ output' = Append(output, summary[Len(output) + 1])
  /\ pc' = IF Len(output) + 1 = Len(summary) THEN "done" ELSE "print"
  /\ UNCHANGED <<run, conn, foreign_keys, in_transaction, schema, db, work,
                 files, tbl, rows, loaded, inserted, error, summary, prev, cv>>

Next ==
  \/ Connect
  \/ CreateTables
  \/ ClearTable
  \/ ReadRows
  \/ InsertRows
  \/ TxnExit
  \/ LeaveConnection
  \/ PrintLine

Spec == Init /\ [][Next]_vars

\* ------------------------------------------ the conversion specification
\* One record of one file goes through DictReader and convert_row.
Chars == {" ", "7", ".", "x"}

Strs(n) == UNION {[1..k -> Chars] : k \in 0..n}

\* Headers: the declared columns, the declared columns but one, and the
\* declared columns followed by a column the table does not declare.
Headers(t) ==
  LET cols == TABLE_CONFIGS[t].columns IN
  {cols, Append(cols, "extra")}
    \cup {[i \in 1..(Len(cols) - 1) |-> IF i < k THEN cols[i] ELSE cols[i + 1]] :
            k \in 1..Len(cols)}

\* Shapes: under the declared header, a record of any length from one field
\* to one field more than the header; under another header, a full record.
Shapes(t) ==
  LET cols == TABLE_CONFIGS[t].columns IN
  {[header |-> cols, len |-> n] : n \in 1..(Len(cols) + 1)}
    \cup {[header |-> h, len |-> Len(h)] : h \in Headers(t)}

\* A well-formed record of the shape, with field i replaced by s.
ShapedRecord(t, sh, i, s) ==
  [j \in 1..sh.len |->
     IF j = i THEN s
     ELSE IF j <= Len(sh.header) THEN BaseField(t, sh.header[j], 1)
     ELSE <<"x">>]

CvInput(t, sh, i, s) ==
  [stage |-> "input", table |-> t, header |-> sh.header,
   fields |-> ShapedRecord(t, sh, i, s),
   row |-> << >>, out |-> [error |-> NoError, tuple |-> <<>>]]

ConvInit ==
  /\ pc = "off"
  /\ run = 0
  /\ conn = "none"
  /\ foreign_keys = FALSE
  /\ in_transaction = FALSE
  /\ schema = {}
  /\ db = EmptyStore
  /\ work = db
  /\ files = << >>
  /\ tbl = 0
  /\ rows = <<>>
  /\ loaded = << >>
  /\ inserted = 0
  /\ error = NoError
  /\ summary = <<>>
  /\ output = <<>>
  /\ prev = [status |-> "none", db |-> EmptyStore]
  /\ \E t \in Tables : \E sh \in Shapes(t) :
        \E i \in 1..sh.len : \E s \in Strs(MaxLen) :
           cv = CvInput(t, sh, i, s)

pipeline == <<pc, run, conn, foreign_keys, in_transaction, schema, db, work,
              files, tbl, rows, loaded, inserted, error, summary, output, prev>>

\* read_rows, lines 165-166: the reader yields the record as a dict.
CvDictReader ==
  /\ cv.stage = "input"
  /\ cv' = [cv EXCEPT !.stage = "row", !.row = DictRow(cv.header, cv.fields)]
  /\ UNCHANGED pipeline

\* read_rows, line 167: convert_row(row, config).
CvConvertRow ==
  /\ cv.stage = "row"
  /\ cv' = [cv EXCEPT !.stage = "done",
                      !.out = convert_row(cv.row, TABLE_CONFIGS[cv.table])]
  /\ UNCHANGED pipeline

ConvNext ==
  \/ CvDictReader
  \/ CvConvertRow

SpecConv == ConvInit /\ [][ConvNext]_vars

\* ------------------------------------------------------------ properties
\* The rows of table t the run in progress has put in store d.
ThisRun(d, t) == SelectSeq(d[t], LAMBDA r : r.run = run)

\* The typed rows read_rows returned for table t in this run.
Expected(t) == loaded[t]

AllBlank(s) == \A i \in 1..Len(s) : s[i] \in Whitespace

\* C1: whenever main() aborts while loading table N, the first included, no
\* row from before the run is left in any table and the tables 1..N-1 hold
\* exactly the rows this run committed for them.
C1_AbortKeepsClearAndPrefix ==
  (pc = "aborted" /\ error.phase \in {"read", "insert"}) =>
     LET N == IndexOf(LOAD_SEQUENCE, error.table) IN
     /\ \A t \in Tables : \A i \in 1..Len(db[t]) : db[t][i].run = run
     /\ \A i \in 1..(N - 1) :
           db[LOAD_SEQUENCE[i]] = Tag(Expected(LOAD_SEQUENCE[i]), run)

\* C2: per-table atomicity: the committed store never holds a non-empty
\* strict subset of the rows this run read for a table, and once main() has
\* aborted on an insert, none of the failing table's rows of this run is in
\* the store and nothing uncommitted is left.
C2_PerTableAtomicity ==
  run >= 1 =>
    /\ \A t \in Tables :
          \/ ThisRun(db, t) = <<>>
          \/ t \in DOMAIN loaded /\ Untag(ThisRun(db, t)) = Expected(t)
    /\ (pc = "aborted" /\ error.phase = "insert") =>
          /\ ThisRun(db, error.table) = <<>>
          /\ work = db

C2_Witness ==
  /\ pc = "aborted"
  /\ error.phase = "insert"
  /\ error.row >= 2
  /\ ThisRun(db, error.table) = <<>>

\* C3: a successful run that follows a successful run on the same source
\* files raises no error and leaves the store with the same rows in every
\* table.
C3_Idempotent ==
  (run >= 2 /\ prev.status = "done") =>
     /\ error.kind = "none"
     /\ pc # "aborted"
     /\ pc = "done" => \A t \in Tables : Untag(db[t]) = Untag(prev.db[t])

C3_Witness ==
  /\ run >= 2
  /\ prev.status = "done"
  /\ pc = "done"
  /\ Len(db["customers"]) = 2
  /\ db["reviews"] # <<>>

\* C4: after a successful run every table holds as many rows as its source
\* file has data records, whatever the store held before, and the count in
\* the summary is the number of rows read.
C4_RowCounts ==
  pc \in {"print", "done"} =>
     \A i \in 1..Len(LOAD_SEQUENCE) :
        LET t == LOAD_SEQUENCE[i] IN
        /\ Len(db[t]) = Len(files[t].records)
        /\ Len(summary) = Len(LOAD_SEQUENCE)
        /\ summary[i].table = t
        /\ summary[i].count = Len(Expected(t))

C4_Witness ==
  /\ pc = "done"
  /\ run = 1
  /\ Len(prev.db["customers"]) = 1
  /\ Len(db["customers"]) = 2
  /\ prev.db["reviews"] # <<>>
  /\ db["reviews"] = <<>>

\* C5: an order_items row that refers to an order or a product the loaded
\* parent table does not hold makes the insertion fail, and the store left
\* behind holds this run's customers, products and orders and no order_items
\* and no reviews, whatever it held before.
AbsentParent(tuple) ==
  \/ ~\E j \in 1..Len(db["orders"]) : db["orders"][j].vals[1] = tuple[1]
  \/ ~\E j \in 1..Len(db["products"]) : db["products"][j].vals[1] = tuple[2]

C5_ForeignKeyFailure ==
  /\ (pc = "txn_exit" /\ LOAD_SEQUENCE[tbl] = "order_items"
        /\ \E i \in 1..Len(rows) : AbsentParent(rows[i]))
       => error.kind = "IntegrityError"
  /\ (pc = "aborted" /\ error.phase = "insert" /\ error.table = "order_items"
        /\ error.detail = "FOREIGN KEY")
       => /\ \A t \in {"customers", "products", "orders"} :
                db[t] = Tag(Expected(t), run)
          /\ db["order_items"] = <<>>
          /\ db["reviews"] = <<>>

C5_Witness ==
  /\ pc = "aborted"
  /\ error.phase = "insert"
  /\ error.table = "order_items"
  /\ error.detail = "FOREIGN KEY"
  /\ error.row = 2
  /\ prev.db["order_items"] # <<>>
  /\ db["orders"] # <<>>

\* C6: a table is inserted into only after every table it references has
\* been loaded in this run; a table is deleted from only after every table
\* that references it has been cleared; no DELETE fails, and an INSERT fails
\* on a foreign key only for a row whose reference is not in the parent's
\* source file.
C6_Ordering ==
  /\ pc = "insert" =>
        \A f \in SCHEMAS[LOAD_SEQUENCE[tbl]].fks :
           \E i \in 1..Len(summary) : summary[i].table = f.table
  /\ pc = "clear" =>
        \A ct \in Tables :
           (\E f \in SCHEMAS[ct].fks : f.table = ClearSequence[tbl]) =>
              /\ \E j \in 1..(tbl - 1) : ClearSequence[j] = ct
              /\ work[ct] = <<>>
  /\ error.phase = "clear" => error.kind = "none"
  /\ (error.phase = "insert" /\ error.detail = "FOREIGN KEY") =>
        \E f \in SCHEMAS[error.table].fks :
           ~\E j \in 1..Len(Expected(f.table)) :
               Col(f.table, Expected(f.table)[j], f.ref)
                 = Col(error.table, rows[error.row], f.col)

C6_Witness ==
  /\ pc = "insert"
  /\ LOAD_SEQUENCE[tbl] = "reviews"
  /\ foreign_keys
  /\ Len(rows) = 2
  /\ run = 1
  /\ prev.db["orders"] # <<>>
  /\ prev.db["reviews"] # <<>>

\* C9: a successful run prints one line per entity, in load order, with the
\* entity's count, and nothing is printed before the last table is
\* committed; a run that aborts prints no line for the failing entity or a
\* later one.
C9_Summary ==
  /\ pc = "done" =>
        /\ Len(output) = Len(LOAD_SEQUENCE)
        /\ \A i \in 1..Len(output) :
              /\ output[i].table = LOAD_SEQUENCE[i]
              /\ output[i].count = Len(files[LOAD_SEQUENCE[i]].records)
  /\ output # <<>> =>
        /\ pc \in {"print", "done"}
        /\ \A t \in Tables : t \in DOMAIN loaded /\ db[t] = Tag(Expected(t), run)
  /\ pc = "aborted" =>
        \A i \in 1..Len(output) :
           /\ \E j \in 1..Len(summary) : summary[j].table = output[i].table
           /\ error.table # "" =>
                IndexOf(LOAD_SEQUENCE, output[i].table)
                  < IndexOf(LOAD_SEQUENCE, error.table)

C9_Witness ==
  /\ pc = "done"
  /\ output[1].count = 2
  /\ output[3].count = 1
  /\ output[5].count = 0

\* C10: the connection is closed whenever main() has been left, normally or
\* by an error.
C10_ConnectionClosed ==
  pc \in {"done", "aborted"} => conn = "closed"

\* The field of the record under test for a declared column: absent when
\* the header lacks the column or the record ends before it.
CvPositions(column) == {k \in 1..Len(cv.header) : cv.header[k] = column}

CvHasValue(column) ==
  \E k \in CvPositions(column) : k <= Len(cv.fields)

CvField(column) ==
  cv.fields[CHOOSE k \in CvPositions(column) : TRUE]

CvColumns == TABLE_CONFIGS[cv.table].columns

CvKind(column) ==
  IF column \in TABLE_CONFIGS[cv.table].float_fields THEN "real"
  ELSE IF column \in TABLE_CONFIGS[cv.table].int_fields THEN "int"
  ELSE "text"

\* C7: in the tuple convert_row returns, a field that is empty or all
\* whitespace is null, whatever the column, and any other field has the
\* column's declared type, its text without the surrounding whitespace;
\* an empty field never makes the conversion fail.
C7_BlankIsNull ==
  cv.stage = "done" =>
    /\ cv.out.error.kind = "none" =>
         \A i \in 1..Len(CvColumns) :
            CvHasValue(CvColumns[i]) =>
               LET f == CvField(CvColumns[i])
                   v == cv.out.tuple[i]
               IN IF AllBlank(f)
                    THEN v = Null
                    ELSE /\ v.kind = CvKind(CvColumns[i])
                         /\ v.kind = "text" =>
                              /\ v.s # <<>>
                              /\ v.s[1] \notin Whitespace
                              /\ v.s[Len(v.s)] \notin Whitespace
                              /\ \E a \in 0..Len(f) :
                                    /\ SubSeq(f, a + 1, a + Len(v.s)) = v.s
                                    /\ AllBlank(SubSeq(f, 1, a))
                                    /\ AllBlank(SubSeq(f, a + Len(v.s) + 1, Len(f)))
    /\ cv.out.error.kind = "ValueError" =>
         \E c \in NumericColumns(cv.table) :
            CvHasValue(c) /\ ~AllBlank(CvField(c))
    /\ (/\ cv.table = "products"
        /\ cv.header = CvColumns
        /\ Len(cv.fields) = Len(CvColumns)
        /\ cv.fields[4] = <<"7", ".", "5">>
        /\ AllBlank(cv.fields[5]))
         => /\ cv.out.error.kind = "none"
            /\ cv.out.tuple[4] = RealVal(75, 1)
            /\ cv.out.tuple[5] = Null

C7_Witness ==
  /\ cv.stage = "done"
  /\ cv.table = "products"
  /\ cv.header = CvColumns
  /\ Len(cv.fields) = Len(CvColumns)
  /\ cv.fields[5] = <<" ">>
  /\ cv.out.tuple = <<TextVal(<<"1">>), TextVal(<<"x">>), TextVal(<<"x">>),
                      RealVal(75, 1), Null, TextVal(<<"x">>), TextVal(<<"x">>)>>

\* C8: a declared column without value in the record, because the header
\* lacks it or because the record is shorter than the header, raises no
\* error and yields null at its position; the tuple has one element per
\* declared column.
C8_MissingIsNull ==
  cv.stage = "done" =>
    /\ cv.out.error.kind # "AttributeError"
    /\ cv.out.error.kind = "none" =>
         /\ Len(cv.out.tuple) = Len(CvColumns)
         /\ \A i \in 1..Len(CvColumns) :
               ~CvHasValue(CvColumns[i]) => cv.out.tuple[i] = Null

====
